---- MODULE Spec2Model ----
(***************************************************************************)
(* A model of aiohttp_wsgi/api.py: start_server builds the dispatch table  *)
(* and opens one listener, Server.close() / Server.wait_closed() tear it   *)
(* down through one background task, Server.request() is the embedded      *)
(* client.  One event loop runs everything: a step of the model is the     *)
(* code that one task runs between two suspension points (awaits).         *)
(***************************************************************************)
EXTENDS Integers, Sequences, FiniteSets, TLC

\* ------------------------------------------------------------ bounds
MaxCloseCalls == 2      \* close() calls made over one run
MaxConns == 1           \* inbound connections accepted over one run
MaxStatic == 1          \* static mounts given to start_server
MaxHostSockets == 1     \* sockets a host/port bind may return

\* ------------------------------------------------------------ values
None == "None"
Callers == {"c1", "c2"}             \* tasks using the Server's API
Hooks == {"A", "B"}                 \* on_finish callbacks
UnixPath == "/run/app.sock"         \* the unix_socket argument, when given
SockPath == "/run/given.sock"       \* the path a caller-supplied unix socket is bound to

\* Paths and static strings are sequences of one-character strings.
Slash == "/"
Eq == "="
EmptyPath == << >>
PathA == <<"/", "a">>
PathASlash == <<"/", "a", "/">>
PathBare == <<"a">>
PathS == <<"/", "s">>
Dir == <<"d">>
PathH == <<"/", "h">>
PathAX == <<"/", "a", "/", "x">>
PathAB == <<"/", "a", "b">>
PathSF == <<"/", "s", "/", "f">>
Methods == { "GET", "POST" }        \* request methods
AnyMethod == "*"                    \* the method add_route("*", ...) binds

\* ------------------------------------------------------------ format_path
EndsWith(path, ch) == Len(path) > 0 /\ path[Len(path)] = ch

StartsWith(path, ch) == Len(path) > 0 /\ path[1] = ch

\* A format_path without its first assertion: a trailing "/" passes.
FormatPathTrailingOk(path) ==
    LET p == IF path = EmptyPath THEN <<Slash>> ELSE path
    IN  [ok |-> StartsWith(p, Slash), path |-> p]

\* format_path(path): [ok, path]; ok = FALSE is the AssertionError.
FormatPath(path) ==
    IF EndsWith(path, Slash) THEN [ok |-> FALSE, path |-> path]
    ELSE LET p == IF path = EmptyPath THEN <<Slash>> ELSE path
         IN  IF StartsWith(p, Slash) THEN [ok |-> TRUE, path |-> p]
             ELSE [ok |-> FALSE, path |-> p]

\* ------------------------------------------------------------ static items
\* A static item is a string "path=directory" or a (path, dirname) pair.
StrItem(s) == [isStr |-> TRUE, str |-> s, path |-> EmptyPath, dirname |-> EmptyPath]

PairItem(p, d) == [isStr |-> FALSE, str |-> EmptyPath, path |-> p, dirname |-> d]

Contains(s, ch) == \E i \in 1..Len(s) : s[i] = ch

FirstIndex(s, ch) == CHOOSE i \in 1..Len(s) : s[i] = ch /\ \A j \in 1..(i - 1) : s[j] # ch

\* static_item.split("=", 1)
SplitOnce(s) ==
    LET i == FirstIndex(s, Eq)
    IN  [path |-> SubSeq(s, 1, i - 1), dirname |-> SubSeq(s, i + 1, Len(s))]

\* An entry of the dispatch table: the method it is bound to, the literal text
\* its pattern starts with, and whether a {name:.*} wildcard follows the text.
Entry(kind, method, pattern, wildcard, handler) ==
    [kind |-> kind, method |-> method, pattern |-> pattern, wildcard |-> wildcard,
     handler |-> handler]

\* One iteration of the static loop: [ok, route]; ok = FALSE is an AssertionError.
StaticEntry(item) ==
    IF item.isStr /\ ~Contains(item.str, Eq)
    THEN [ok |-> FALSE, route |-> Entry("static", AnyMethod, EmptyPath, TRUE, "static")]
    ELSE LET pd == IF item.isStr THEN SplitOnce(item.str)
                   ELSE [path |-> item.path, dirname |-> item.dirname]
             fp == FormatPath(pd.path)
         IN  [ok |-> fp.ok,
              route |-> Entry("static", AnyMethod, fp.path \o <<Slash>>, TRUE, "static")]

RECURSIVE StaticEntries(_)
\* The static loop over all items: the routes added, and whether every item passed.
StaticEntries(items) ==
    IF items = << >> THEN [ok |-> TRUE, routes |-> << >>]
    ELSE LET e == StaticEntry(Head(items))
         IN  IF ~e.ok THEN [ok |-> FALSE, routes |-> << >>]
             ELSE LET rest == StaticEntries(Tail(items))
                  IN  [ok |-> rest.ok, routes |-> <<e.route>> \o rest.routes]

\* A registration that puts each new callback first.
OnShutdownPrepend(list, cb) == << cb >> \o list

\* app.on_shutdown.append(callback)
OnShutdownAppend(list, cb) == Append(list, cb)

RECURSIVE RegisterHooks(_, _)
\* The on_finish loop.
RegisterHooks(list, cbs) ==
    IF cbs = << >> THEN list
    ELSE RegisterHooks(OnShutdownAppend(list, Head(cbs)), Tail(cbs))

\* The explicit routes, in input order.
ExplicitRoutes(rs) ==
    [i \in 1..Len(rs) |-> Entry("route", rs[i].method, rs[i].path, FALSE, rs[i].handler)]

\* Lines 123-127: the bridge, bound to every method on the pattern
\* format_path(script_name) followed directly by {path_info:.*}.
WsgiEntry(fp) == Entry("wsgi", AnyMethod, fp.path, TRUE, "application")

\* The dispatch table start_server builds: [ok, table].
BuildRouter(cfg) ==
    LET st == StaticEntries(cfg.static)
        sn == FormatPath(cfg.script_name)
    IN  [ok |-> st.ok /\ sn.ok,
         table |-> ExplicitRoutes(cfg.routes) \o st.routes \o << WsgiEntry(sn) >>]

\* ------------------------------------------------------------ dispatch
\* path starts with the text prefix.
HasPrefix(path, prefix) ==
    Len(path) >= Len(prefix) /\ SubSeq(path, 1, Len(prefix)) = prefix

\* The router's test of one entry against a request: the method, then the
\* pattern anchored at both ends, the wildcard .* taking any rest.
Matches(e, method, path) ==
    /\ e.method = AnyMethod \/ e.method = method
    /\ IF e.wildcard THEN HasPrefix(path, e.pattern) ELSE path = e.pattern

\* The router's resolve: the first entry, in registration order, that matches;
\* 0 when none does (404 or 405).
Resolve(table, method, path) ==
    IF \E i \in DOMAIN table : Matches(table[i], method, path)
    THEN CHOOSE i \in DOMAIN table :
            /\ Matches(table[i], method, path)
            /\ \A j \in 1..(i - 1) : ~Matches(table[j], method, path)
    ELSE 0

\* ------------------------------------------------------------ configurations
StaticItems ==
    { StrItem(PathS \o <<Eq>> \o Dir), StrItem(PathS), StrItem(<<Eq>> \o Dir),
      PairItem(PathS, Dir), PairItem(PathASlash, Dir), PairItem(PathBare, Dir) }

RECURSIVE SeqsUpTo(_, _)
\* All sequences over S of length at most n.
SeqsUpTo(S, n) ==
    IF n = 0 THEN { << >> }
    ELSE LET shorter == SeqsUpTo(S, n - 1)
         IN  shorter \cup { Append(q, x) : q \in shorter, x \in S }

StaticLists == SeqsUpTo(StaticItems, MaxStatic)

ScriptNames == { EmptyPath, <<Slash>>, PathA, PathASlash, PathBare }

\* Two explicit routes: one under the bridge's mount /a, one under the static
\* mount /s.
RouteR1 == [method |-> "GET", path |-> PathAX, handler |-> "r1"]

RouteR2 == [method |-> "GET", path |-> PathSF, handler |-> "r2"]

RouteLists == { << >>, << RouteR1, RouteR2 >> }

\* The paths of the requests sent to a listening server.
RequestPaths == { <<Slash>>, PathH, PathA, PathAX, PathAB, PathS, PathSF }

HookLists == { << >>, <<"A", "B">> }

UnixSocketArgs == { None, UnixPath }

SocketArgs == { None, "inet", "unix" }

HostArgs == { None, "localhost" }

\* Every binding mode and hook list, with one fixed valid routing setup.
ServeConfigs ==
    { c \in [ host : { None }, unix_socket : UnixSocketArgs, socket : SocketArgs,
              on_finish : HookLists,
              routes : { << RouteR1, RouteR2 >> }, static : { <<PairItem(PathS, Dir)>> },
              script_name : { EmptyPath } ] :
        c.unix_socket = None \/ c.socket = None }

\* Every binding choice with every routing setup, valid or not.
StartConfigs ==
    [ host : HostArgs, unix_socket : UnixSocketArgs, socket : SocketArgs,
      on_finish : { <<"A", "B">> },
      routes : RouteLists, static : StaticLists, script_name : ScriptNames ]

\* ------------------------------------------------------------ state
VARIABLES
    cfg,            \* the keyword arguments of start_server
    phase,          \* "init", "binding", "serving", "failed_config", "failed_bind"
    router,         \* app.router: the dispatch table, in registration order
    handled,        \* the last request dispatched: [method, path, idx], idx the entry
    onShutdown,     \* app.on_shutdown
    sockets,        \* Server.sockets as bound: records [kind, addr]
    listener,       \* self._server: "none", "accepting", "stopped", "closed"
    fs,             \* filesystem paths that exist
    closeFuture,    \* self._close_future: 0 is None, else the task's number
    connector,      \* self._connector: "None", "open", "closed"
    session,        \* self._session: "None", "open", "closed"
    created,        \* [connector, session]: how many of each were constructed
    taskStep,       \* the shutdown task: 0 scheduled, i awaiting step i, 5 finished
    hookIdx,        \* the hook app.shutdown() is awaiting (0: none)
    taskResult,     \* "none", "pending", "ok", or the hook that raised
    conns,          \* inbound connections still open
    forced,         \* connections finish_connections closed at the timeout
    pc,             \* per caller: "idle", "waiting", "body", "exiting", "requesting"
    result,         \* per caller: what its last wait_closed() returned or raised
    calls,          \* [close, accept]: close() calls and accepted connections so far
    events          \* the side effects performed, in order

vars == << cfg, phase, router, handled, onShutdown, sockets, listener, fs, closeFuture,
           connector, session, created, taskStep, hookIdx, taskResult, conns,
           forced, pc, result, calls, events >>

serverVars == << closeFuture, connector, session, created, taskStep, hookIdx,
                 taskResult, conns, forced, pc, result, calls >>

Ev(op, arg) == << op, arg >>

NoRequest == [method |-> None, path |-> EmptyPath, idx |-> 0]

InitWith(configs) ==
    /\ cfg \in configs
    /\ phase = "init"
    /\ router = << >>
    /\ handled = NoRequest
    /\ onShutdown = << >>
    /\ sockets = << >>
    /\ listener = "none"
    /\ fs = IF cfg.socket = "unix" THEN { SockPath } ELSE { }
    /\ closeFuture = 0
    /\ connector = None
    /\ session = None
    /\ created = [connector |-> 0, session |-> 0]
    /\ taskStep = 0
    /\ hookIdx = 0
    /\ taskResult = "none"
    /\ conns = { }
    /\ forced = { }
    /\ pc = [c \in Callers |-> "idle"]
    /\ result = [c \in Callers |-> "none"]
    /\ calls = [close |-> 0, accept |-> 0]
    /\ events = << >>

Init == InitWith(ServeConfigs)

InitStart == InitWith(StartConfigs)

\* ------------------------------------------------------------ start_server
\* Lines 104-128: everything start_server does before it first awaits.
StartServerSetup ==
    /\ phase = "init"
    /\ LET r == BuildRouter(cfg)
       IN  IF r.ok
           THEN /\ router' = r.table
                /\ onShutdown' = RegisterHooks(<< >>, cfg.on_finish)
                /\ phase' = "binding"
           ELSE /\ phase' = "failed_config"
                /\ UNCHANGED << router, onShutdown >>
    /\ UNCHANGED << cfg, handled, sockets, listener, fs, events >>
    /\ UNCHANGED serverVars

\* A chain that looks at the socket argument before the unix_socket one.
BindModeSocketFirst(c) ==
    IF c.socket # None THEN "socket"
    ELSE IF c.unix_socket # None THEN "unix_socket"
    ELSE "host"

\* The binding mode the if / elif / else chain takes.
BindMode(c) ==
    IF c.unix_socket # None THEN "unix_socket"
    ELSE IF c.socket # None THEN "socket"
    ELSE "host"

\* The listener-creation call made for a mode.
CreateCall(c) ==
    CASE BindMode(c) = "unix_socket" -> Ev("create_unix_server", c.unix_socket)
      [] BindMode(c) = "socket" -> Ev("create_server_sock", c.socket)
      [] OTHER -> Ev("create_server_host", c.host)

\* The sockets the created listener holds; n is how many a host bind returned.
BoundSockets(c, n) ==
    CASE BindMode(c) = "unix_socket" -> << [kind |-> "unix", addr |-> c.unix_socket] >>
      [] BindMode(c) = "socket" ->
            IF c.socket = "unix" THEN << [kind |-> "unix", addr |-> SockPath] >>
            ELSE << [kind |-> "host", addr |-> "port"] >>
      [] OTHER -> [i \in 1..n |-> [kind |-> "host", addr |-> "port"]]

\* os.chmod(unix_socket, unix_socket_perms), made only when unix_socket is given.
ChmodEvents(c) ==
    IF c.unix_socket # None THEN << Ev("chmod", c.unix_socket) >> ELSE << >>

\* Lines 133-156: the awaited listener creation returns or raises, then chmod
\* and the Server is constructed.
StartServerListen ==
    /\ phase = "binding"
    /\ \E ok \in BOOLEAN, n \in 1..MaxHostSockets :
        /\ (BindMode(cfg) # "host") => n = 1
        /\ IF ok
           THEN /\ sockets' = BoundSockets(cfg, n)
                /\ listener' = "accepting"
                /\ fs' = IF BindMode(cfg) = "unix_socket"
                         THEN fs \cup { cfg.unix_socket } ELSE fs
                /\ events' = events \o << CreateCall(cfg) >> \o ChmodEvents(cfg)
                /\ phase' = "serving"
           ELSE /\ n = 1
                /\ events' = Append(events, CreateCall(cfg))
                /\ phase' = "failed_bind"
                /\ UNCHANGED << sockets, listener, fs >>
    /\ UNCHANGED << cfg, handled, router, onShutdown >>
    /\ UNCHANGED serverVars

\* The handler made at line 128 serves one request: the router resolves it.
Handle ==
    /\ phase = "serving"
    /\ listener = "accepting"
    /\ \E method \in Methods, path \in RequestPaths :
        handled' = [method |-> method, path |-> path,
                    idx |-> Resolve(router, method, path)]
    /\ UNCHANGED << cfg, phase, router, onShutdown, sockets, listener, fs, events >>
    /\ UNCHANGED serverVars

StartNext == StartServerSetup \/ StartServerListen \/ Handle

SpecStart == InitStart /\ [][StartNext]_vars

\* ------------------------------------------------------------ Server.close
Serving == phase = "serving"

\* A close() that does not look at self._close_future.
CloseGuardMissing == TRUE

\* Line 33: the one-time check.
CloseGuard == closeFuture = 0

\* Lines 35-38: release the client session and connector, if created.
ClientCloseEvents ==
    (IF session # None THEN << Ev("session.close", "") >> ELSE << >>)
    \o (IF connector # None THEN << Ev("connector.close", "") >> ELSE << >>)

\* A close() that finds no unix socket among self.sockets.
UnixPathsNone(socks) == << >>

\* parse_sockname over self.sockets: the paths of the sockets whose host is "unix".
UnixPaths(socks) ==
    LET unix == SelectSeq(socks, LAMBDA so : so.kind = "unix")
    IN  [i \in 1..Len(unix) |-> unix[i].addr]

\* Lines 40-43: os.unlink per unix socket; failAt = 0 when none raises, else the
\* index of the unlink that raises OSError and ends the loop.
UnlinkEvents(paths, failAt) ==
    [i \in 1..(IF failAt = 0 THEN Len(paths) ELSE failAt) |->
        IF i = failAt THEN Ev("unlink_raised", paths[i]) ELSE Ev("unlink", paths[i])]

Unlinked(paths, failAt) ==
    { paths[i] : i \in 1..(IF failAt = 0 THEN Len(paths) ELSE failAt - 1) }

\* A close() that stops the listener before it removes the socket paths.
CloseEventsListenerFirst(paths, failAt) ==
    ClientCloseEvents
    \o (IF failAt = 0 THEN << Ev("server.close", "") >> ELSE << >>)
    \o UnlinkEvents(paths, failAt)
    \o (IF failAt = 0 THEN << Ev("create_task", "") >> ELSE << >>)

\* Lines 34-46 in order: what one close() that passed the check does.
CloseEvents(paths, failAt) ==
    ClientCloseEvents \o UnlinkEvents(paths, failAt)
    \o (IF failAt = 0
        THEN << Ev("server.close", ""), Ev("create_task", "") >>
        ELSE << >>)

Released(x) == IF x # None THEN "closed" ELSE None

\* The state change of one close() call by a running caller.
DoClose(c, failAt) ==
    LET paths == UnixPaths(sockets)
    IN  /\ calls.close < MaxCloseCalls
        /\ calls' = [calls EXCEPT !.close = @ + 1]
        /\ failAt \in 0..Len(paths)
        /\ IF ~CloseGuard
           THEN /\ failAt = 0
                /\ UNCHANGED << session, connector, fs, listener, closeFuture,
                                taskStep, hookIdx, taskResult, events >>
           ELSE /\ Unlinked(paths, failAt) \subseteq fs
                /\ session' = Released(session)
                /\ connector' = Released(connector)
                /\ fs' = fs \ Unlinked(paths, failAt)
                /\ events' = events \o CloseEvents(paths, failAt)
                /\ IF failAt = 0
                   THEN /\ listener' = "stopped"
                        /\ closeFuture' = closeFuture + 1
                        /\ taskStep' = 0
                        /\ hookIdx' = 0
                        /\ taskResult' = "pending"
                   ELSE UNCHANGED << listener, closeFuture, taskStep, hookIdx,
                                     taskResult >>

CloseOutcome(failAt) ==
    IF ~CloseGuard THEN "close_noop"
    ELSE IF failAt = 0 THEN "close_done" ELSE "OSError"

\* server.close() called by task c.
Close(c) ==
    /\ Serving
    /\ pc[c] = "idle"
    /\ \E failAt \in 0..Len(sockets) : DoClose(c, failAt)
    /\ UNCHANGED << cfg, handled, phase, router, onShutdown, sockets, created, conns,
                    forced, pc, result >>

\* ------------------------------------------------------------ the shutdown task
\* The drain awaited before the shutdown hooks.
WaitClosedStepsDrainFirst ==
    << "server.wait_closed", "finish_connections", "app.shutdown", "app.cleanup" >>

\* Lines 27-30: the awaits of _wait_closed, in order.
WaitClosedSteps ==
    << "server.wait_closed", "app.shutdown", "finish_connections", "app.cleanup" >>

LastStep == Len(WaitClosedSteps)

Finished == LastStep + 1

TaskDone == closeFuture # 0 /\ taskStep = Finished

\* The step the task is suspended in, "" when it is not inside one.
CurrentStep == IF taskStep \in 1..LastStep THEN WaitClosedSteps[taskStep] ELSE ""

\* Calling step i: app.shutdown() calls the first hook at once.
BeginEvents(i) ==
    << Ev("begin", WaitClosedSteps[i]) >>
    \o (IF WaitClosedSteps[i] = "app.shutdown" /\ onShutdown # << >>
        THEN << Ev("hook_begin", onShutdown[1]) >> ELSE << >>)

BeginHookIdx(i) ==
    IF WaitClosedSteps[i] = "app.shutdown" /\ onShutdown # << >> THEN 1 ELSE 0

\* The await of step taskStep returns: the task goes on to the next await, or ends.
Advance ==
    /\ events' = events \o << Ev("end", WaitClosedSteps[taskStep]) >>
                 \o (IF taskStep < LastStep THEN BeginEvents(taskStep + 1) ELSE << >>)
    /\ hookIdx' = IF taskStep < LastStep THEN BeginHookIdx(taskStep + 1) ELSE 0
    /\ taskStep' = taskStep + 1
    /\ taskResult' = IF taskStep < LastStep THEN "pending" ELSE "ok"

\* The event loop first runs the task created at line 46.
TaskStart ==
    /\ closeFuture # 0
    /\ taskStep = 0
    /\ taskStep' = 1
    /\ hookIdx' = BeginHookIdx(1)
    /\ events' = events \o BeginEvents(1)
    /\ UNCHANGED << cfg, handled, phase, router, onShutdown, sockets, listener, fs, closeFuture,
                    connector, session, created, taskResult, conns, forced, pc,
                    result, calls >>

\* Line 27: the listener has finished closing.
ListenerClosed ==
    /\ CurrentStep = "server.wait_closed"
    /\ listener' = "closed"
    /\ Advance
    /\ UNCHANGED << cfg, handled, phase, router, onShutdown, sockets, fs, closeFuture,
                    connector, session, created, conns, forced, pc, result, calls >>

\* Line 28 with no hook registered.
ShutdownNoHooks ==
    /\ CurrentStep = "app.shutdown"
    /\ onShutdown = << >>
    /\ Advance
    /\ UNCHANGED << cfg, handled, phase, router, onShutdown, sockets, listener, fs,
                    closeFuture, connector, session, created, conns, forced, pc,
                    result, calls >>

\* Line 28: the hook being awaited returns; the next one is called, or
\* app.shutdown() returns.
HookReturns ==
    /\ CurrentStep = "app.shutdown"
    /\ hookIdx \in 1..Len(onShutdown)
    /\ IF hookIdx < Len(onShutdown)
       THEN /\ events' = events \o << Ev("hook_end", onShutdown[hookIdx]),
                                      Ev("hook_begin", onShutdown[hookIdx + 1]) >>
            /\ hookIdx' = hookIdx + 1
            /\ UNCHANGED << taskStep, taskResult >>
       ELSE /\ events' = events \o << Ev("hook_end", onShutdown[hookIdx]),
                                      Ev("end", WaitClosedSteps[taskStep]) >>
                         \o (IF taskStep < LastStep THEN BeginEvents(taskStep + 1)
                             ELSE << >>)
            /\ hookIdx' = 0
            /\ taskStep' = taskStep + 1
            /\ taskResult' = IF taskStep < LastStep THEN "pending" ELSE "ok"
    /\ UNCHANGED << cfg, handled, phase, router, onShutdown, sockets, listener, fs,
                    closeFuture, connector, session, created, conns, forced, pc,
                    result, calls >>

\* A hook's exception caught and logged, and the shutdown carried on.
HookRaisesSwallowed ==
    /\ CurrentStep = "app.shutdown"
    /\ hookIdx \in 1..Len(onShutdown)
    /\ IF hookIdx < Len(onShutdown)
       THEN /\ events' = events \o << Ev("hook_raised", onShutdown[hookIdx]),
                                      Ev("hook_begin", onShutdown[hookIdx + 1]) >>
            /\ hookIdx' = hookIdx + 1
            /\ UNCHANGED << taskStep, taskResult >>
       ELSE /\ events' = events \o << Ev("hook_raised", onShutdown[hookIdx]),
                                      Ev("end", WaitClosedSteps[taskStep]) >>
                         \o (IF taskStep < LastStep THEN BeginEvents(taskStep + 1)
                             ELSE << >>)
            /\ hookIdx' = 0
            /\ taskStep' = taskStep + 1
            /\ taskResult' = IF taskStep < LastStep THEN "pending" ELSE "ok"
    /\ UNCHANGED << cfg, handled, phase, router, onShutdown, sockets, listener, fs,
                    closeFuture, connector, session, created, conns, forced, pc,
                    result, calls >>

\* Line 28: the hook being awaited raises; the exception ends the task.
HookRaises ==
    /\ CurrentStep = "app.shutdown"
    /\ hookIdx \in 1..Len(onShutdown)
    /\ events' = Append(events, Ev("hook_raised", onShutdown[hookIdx]))
    /\ taskResult' = onShutdown[hookIdx]
    /\ taskStep' = Finished
    /\ hookIdx' = 0
    /\ UNCHANGED << cfg, handled, phase, router, onShutdown, sockets, listener, fs,
                    closeFuture, connector, session, created, conns, forced, pc,
                    result, calls >>

\* A drain that waits for the connections with no timeout.
DrainWithoutTimeout == FALSE

\* Line 29: finish_connections is given the shutdown timeout.
DrainHasTimeout == TRUE

\* Line 29: the timeout elapses; the connections still open are closed.
DrainTimeout ==
    /\ CurrentStep = "finish_connections"
    /\ DrainHasTimeout
    /\ conns # { }
    /\ forced' = forced \cup conns
    /\ conns' = { }
    /\ events' = Append(events, Ev("force_close", ""))
    /\ UNCHANGED << cfg, handled, phase, router, onShutdown, sockets, listener, fs,
                    closeFuture, connector, session, created, taskStep, hookIdx,
                    taskResult, pc, result, calls >>

\* Line 29: no connection is left; finish_connections returns.
DrainDone ==
    /\ CurrentStep = "finish_connections"
    /\ conns = { }
    /\ Advance
    /\ UNCHANGED << cfg, handled, phase, router, onShutdown, sockets, listener, fs,
                    closeFuture, connector, session, created, conns, forced, pc,
                    result, calls >>

\* Line 30: app.cleanup() returns.
CleanupDone ==
    /\ CurrentStep = "app.cleanup"
    /\ Advance
    /\ UNCHANGED << cfg, handled, phase, router, onShutdown, sockets, listener, fs,
                    closeFuture, connector, session, created, conns, forced, pc,
                    result, calls >>

\* ------------------------------------------------------------ connections
\* The listener accepts an inbound connection.
Accept ==
    /\ listener = "accepting"
    /\ calls.accept < MaxConns
    /\ calls' = [calls EXCEPT !.accept = @ + 1]
    /\ conns' = conns \cup { calls.accept + 1 }
    /\ UNCHANGED << cfg, handled, phase, router, onShutdown, sockets, listener, fs,
                    closeFuture, connector, session, created, taskStep, hookIdx,
                    taskResult, forced, pc, result, events >>

\* A connection finishes on its own.
ConnFinish ==
    /\ \E k \in conns : conns' = conns \ { k }
    /\ UNCHANGED << cfg, handled, phase, router, onShutdown, sockets, listener, fs,
                    closeFuture, connector, session, created, taskStep, hookIdx,
                    taskResult, forced, pc, result, calls, events >>

\* ------------------------------------------------------------ Server.wait_closed
\* Line 49: asyncio.shield(self._close_future) raises TypeError when the
\* attribute is still None (shield needs a future or a coroutine).
ShieldArgOk == closeFuture # 0

\* A wait_closed() that hands back the task without awaiting it.
AwaitShieldNoAwait == IF ~ShieldArgOk THEN "TypeError" ELSE "returns"

\* What `await asyncio.shield(self._close_future)` does when first run by a caller:
\* "TypeError", "returns" (the task is already done) or "suspends".
AwaitShield ==
    IF ~ShieldArgOk THEN "TypeError"
    ELSE IF TaskDone THEN "returns"
    ELSE "suspends"

\* The state change of one wait_closed() call, up to its first suspension;
\* `waiting` is the pc of the caller while suspended.
DoWaitClosed(c, resultNow, waiting) ==
    CASE AwaitShield = "TypeError" ->
            /\ pc' = [pc EXCEPT ![c] = "idle"]
            /\ result' = [resultNow EXCEPT ![c] = "TypeError"]
      [] AwaitShield = "returns" ->
            /\ pc' = [pc EXCEPT ![c] = "idle"]
            /\ result' = [resultNow EXCEPT ![c] = taskResult]
      [] OTHER ->
            /\ pc' = [pc EXCEPT ![c] = waiting]
            /\ result' = [resultNow EXCEPT ![c] = "none"]

\* await server.wait_closed() called by task c.
WaitClosed(c) ==
    /\ Serving
    /\ pc[c] = "idle"
    /\ DoWaitClosed(c, result, "waiting")
    /\ UNCHANGED << cfg, handled, phase, router, onShutdown, sockets, listener, fs,
                    closeFuture, connector, session, created, taskStep, hookIdx,
                    taskResult, conns, forced, calls, events >>

\* The shutdown task is done: a suspended wait_closed() returns its result or
\* raises its exception.
WaitReturns(c) ==
    /\ pc[c] \in { "waiting", "exiting" }
    /\ TaskDone
    /\ pc' = [pc EXCEPT ![c] = "idle"]
    /\ result' = [result EXCEPT ![c] = taskResult]
    /\ UNCHANGED << cfg, handled, phase, router, onShutdown, sockets, listener, fs,
                    closeFuture, connector, session, created, taskStep, hookIdx,
                    taskResult, conns, forced, calls, events >>

\* A wait_closed() that awaits the task itself.
Unshielded == FALSE

\* Line 49: the caller awaits a shield around the task, not the task itself.
Shielded == TRUE

\* A caller suspended in wait_closed() is cancelled.
CancelWaiter(c) ==
    /\ pc[c] \in { "waiting", "exiting" }
    /\ ~TaskDone
    /\ pc' = [pc EXCEPT ![c] = "idle"]
    /\ result' = [result EXCEPT ![c] = "cancelled"]
    /\ IF Shielded
       THEN UNCHANGED << taskStep, hookIdx, taskResult >>
       ELSE /\ taskStep' = Finished
            /\ hookIdx' = 0
            /\ taskResult' = "cancelled"
    /\ UNCHANGED << cfg, handled, phase, router, onShutdown, sockets, listener, fs,
                    closeFuture, connector, session, created, conns, forced, calls,
                    events >>

\* ------------------------------------------------------------ async with server
\* Lines 51-52: __aenter__ returns the Server; the caller is in the block's body.
AEnter(c) ==
    /\ Serving
    /\ pc[c] = "idle"
    /\ pc' = [pc EXCEPT ![c] = "body"]
    /\ result' = [result EXCEPT ![c] = "none"]
    /\ UNCHANGED << cfg, handled, phase, router, onShutdown, sockets, listener, fs,
                    closeFuture, connector, session, created, taskStep, hookIdx,
                    taskResult, conns, forced, calls, events >>

\* server.close() called inside the block's body.
CloseInBody(c) ==
    /\ pc[c] = "body"
    /\ \E failAt \in 0..Len(sockets) : DoClose(c, failAt)
    /\ UNCHANGED << cfg, handled, phase, router, onShutdown, sockets, created, conns,
                    forced, pc, result >>

\* Lines 54-56: __aexit__, whether the body returned or raised: close(), then
\* wait_closed() when close() did not raise.
AExit(c) ==
    /\ pc[c] = "body"
    /\ \E failAt \in 0..Len(sockets) :
        /\ DoClose(c, failAt)
        /\ IF CloseOutcome(failAt) = "OSError"
           THEN /\ pc' = [pc EXCEPT ![c] = "idle"]
                /\ result' = [result EXCEPT ![c] = "OSError"]
           ELSE \/ /\ TaskDone
                   /\ pc' = [pc EXCEPT ![c] = "idle"]
                   /\ result' = [result EXCEPT ![c] = taskResult]
                \/ /\ ~TaskDone
                   /\ pc' = [pc EXCEPT ![c] = "exiting"]
                   /\ result' = [result EXCEPT ![c] = "none"]
    /\ UNCHANGED << cfg, handled, phase, router, onShutdown, sockets, created, conns, forced >>

\* ------------------------------------------------------------ Server.request
\* A listener that keeps its sockets listed after it was closed.
LiveSocketsKept == sockets

\* self.sockets once the listener was closed: asyncio's Server has none left.
LiveSockets == IF listener = "accepting" THEN sockets ELSE << >>

\* Lines 60-64: the connector is constructed when the attribute is None.
NeedConnector == connector = None

\* A request() that constructs a session whatever the attribute holds.
NeedSessionAlways == TRUE

\* Lines 65-66: the session is constructed when the attribute is None.
NeedSession == session = None

\* await server.request(...) called by task c: line 59 raises when no socket is
\* left; otherwise lines 60-67 run without suspending and the caller is then
\* suspended in session.request (line 68).
Request(c) ==
    /\ Serving
    /\ pc[c] = "idle"
    /\ IF LiveSockets = << >>
       THEN UNCHANGED << connector, session, created, pc >>
       ELSE /\ connector' = IF NeedConnector THEN "open" ELSE connector
            /\ session' = IF NeedSession THEN "open" ELSE session
            /\ created' = [connector |-> created.connector + (IF NeedConnector THEN 1 ELSE 0),
                           session |-> created.session + (IF NeedSession THEN 1 ELSE 0)]
            /\ pc' = [pc EXCEPT ![c] = "requesting"]
    /\ UNCHANGED << cfg, handled, phase, router, onShutdown, sockets, listener, fs,
                    closeFuture, taskStep, hookIdx, taskResult, conns, forced,
                    result, calls, events >>

\* Line 68: session.request completes (with a response or an error) and
\* request() returns to its caller.
RequestReturns(c) ==
    /\ pc[c] = "requesting"
    /\ pc' = [pc EXCEPT ![c] = "idle"]
    /\ UNCHANGED << cfg, handled, phase, router, onShutdown, sockets, listener, fs,
                    closeFuture, connector, session, created, taskStep, hookIdx,
                    taskResult, conns, forced, result, calls, events >>

\* ------------------------------------------------------------ specification
Next ==
    \/ StartServerSetup
    \/ StartServerListen
    \/ \E c \in Callers : Close(c)
    \/ \E c \in Callers : WaitClosed(c)
    \/ \E c \in Callers : WaitReturns(c)
    \/ \E c \in Callers : CancelWaiter(c)
    \/ \E c \in Callers : AEnter(c)
    \/ \E c \in Callers : CloseInBody(c)
    \/ \E c \in Callers : AExit(c)
    \/ \E c \in Callers : Request(c)
    \/ \E c \in Callers : RequestReturns(c)
    \/ TaskStart
    \/ ListenerClosed
    \/ ShutdownNoHooks
    \/ HookReturns
    \/ HookRaises
    \/ DrainTimeout
    \/ DrainDone
    \/ CleanupDone
    \/ Accept
    \/ ConnFinish

Spec == Init /\ [][Next]_vars

\* The event loop runs every task that is ready: the created shutdown task is
\* started, and each await whose awaited operation is over is resumed.  A hook
\* may never return, and a connection may never finish on its own; callers may
\* stop calling.
Fairness ==
    /\ WF_vars(TaskStart)
    /\ WF_vars(ListenerClosed)
    /\ WF_vars(ShutdownNoHooks)
    /\ WF_vars(DrainTimeout)
    /\ WF_vars(DrainDone)
    /\ WF_vars(CleanupDone)

FairSpec == Init /\ [][Next]_vars /\ Fairness

\* ------------------------------------------------------------ reading the log
Has(e) == \E i \in DOMAIN events : events[i] = e

Count(e) == Cardinality({ i \in DOMAIN events : events[i] = e })

\* The position of the first e in the log, 0 when there is none.
Pos(e) == IF Has(e) THEN CHOOSE i \in DOMAIN events :
                            events[i] = e /\ \A j \in 1..(i - 1) : events[j] # e
          ELSE 0

\* e1 is in the log, before the first e2.
Before(e1, e2) == Has(e1) /\ Pos(e1) < Pos(e2)

TaskOutcomes == { "ok" } \cup Hooks

\* Values of result[c] that are not something a wait_closed() got from the task:
\* no call yet, shield's TypeError, the caller's own cancellation, and close()
\* raising inside __aexit__ before wait_closed() is reached.
NotFromTask == { "none", "TypeError", "cancelled", "OSError" }

\* The teardown side effects of close() and of the shutdown task.
TeardownEvents ==
    { Ev("session.close", ""), Ev("connector.close", ""), Ev("server.close", ""),
      Ev("create_task", ""), Ev("unlink", UnixPath), Ev("unlink", SockPath) }
    \cup { Ev("begin", WaitClosedSteps[i]) : i \in 1..LastStep }
    \cup { Ev("hook_begin", h) : h \in Hooks }

\* ------------------------------------------------------------ C1
\* C1: close() is idempotent: over any number of close() calls at most one
\* shutdown task is created and every teardown side effect (session and
\* connector release, socket path removal, listener stop, hooks, drain,
\* cleanup) happens at most once.
C1_CloseIdempotent == \A e \in TeardownEvents : Count(e) <= 1

\* ------------------------------------------------------------ C2
\* C2: wait_closed() called while the Server is still Open does not fail: no
\* caller's wait_closed() ever raises because there is no shutdown task yet.
C2_WaitBeforeCloseSafe == \A c \in Callers : result[c] # "TypeError"

\* ------------------------------------------------------------ C3
\* C3: once close() has created the shutdown task, every wait_closed() caller
\* returns only after that task has finished and with that task's outcome, and
\* the teardown sequence is run once: no step of it begins a second time.
C3_WaitersShareTask ==
    /\ \A c \in Callers :
          result[c] \notin NotFromTask
             => TaskDone /\ result[c] = taskResult /\ result[c] \in TaskOutcomes
    /\ Count(Ev("create_task", "")) <= 1
    /\ \A i \in 1..LastStep : Count(Ev("begin", WaitClosedSteps[i])) <= 1

\* The task failed in hook A while both callers were suspended in wait_closed():
\* c1 has been resumed with that failure, c2 is about to be.
C3_Witness ==
    /\ TaskDone
    /\ taskResult = "A"
    /\ result["c1"] = "A"
    /\ pc["c2"] = "waiting"

\* ------------------------------------------------------------ C4
\* The four steps in the order the claim gives them.
ClaimedSteps ==
    << "server.wait_closed", "app.shutdown", "finish_connections", "app.cleanup" >>

\* C4: the shutdown task runs listener wait, hooks, drain, cleanup strictly in
\* that order: whenever a later step has begun, every earlier one has begun and
\* has ended before it.
C4_StepsInOrder ==
    \A i, j \in 1..Len(ClaimedSteps) :
        (i < j /\ Has(Ev("begin", ClaimedSteps[j])))
            => /\ Before(Ev("begin", ClaimedSteps[i]), Ev("end", ClaimedSteps[i]))
               /\ Before(Ev("end", ClaimedSteps[i]), Ev("begin", ClaimedSteps[j]))

\* The task ran to its end with hooks registered and a connection to drain.
C4_Witness ==
    /\ TaskDone
    /\ taskResult = "ok"
    /\ Has(Ev("end", "app.cleanup"))
    /\ Has(Ev("hook_end", "B"))
    /\ Has(Ev("force_close", ""))

\* ------------------------------------------------------------ C5
\* C5: once a shutdown hook has raised, the drain and the final cleanup are
\* never begun, the task is finished with that hook's failure, and every
\* wait_closed() caller that got an outcome got that failure.
C5_HookFailureAborts ==
    \A h \in Hooks :
        Has(Ev("hook_raised", h))
            => /\ ~Has(Ev("begin", "finish_connections"))
               /\ ~Has(Ev("begin", "app.cleanup"))
               /\ TaskDone
               /\ taskResult = h
               /\ \A c \in Callers : result[c] \notin NotFromTask => result[c] = h

\* Hook B raised after hook A returned; c1, suspended since before, has been
\* resumed with the failure and c2 is still to be.
C5_Witness ==
    /\ Has(Ev("hook_end", "A"))
    /\ Has(Ev("hook_raised", "B"))
    /\ result["c1"] = "B"
    /\ pc["c2"] = "waiting"

\* ------------------------------------------------------------ C6
\* The lifecycle state, read off the Server's fields.
ServerState ==
    IF closeFuture = 0 THEN "Open"
    ELSE IF TaskDone THEN "Closed" ELSE "Closing"

\* C6: the only lifecycle transitions are Open -> Closing, made by a close()
\* call, and Closing -> Closed, made by the shutdown task finishing; the
\* listener, once stopped, never accepts again; the shutdown task reference,
\* once set, is never cleared or replaced.
C6_Lifecycle ==
    [][ /\ \/ ServerState' = ServerState
           \/ /\ ServerState = "Open"
              /\ ServerState' = "Closing"
              /\ calls'.close = calls.close + 1
           \/ /\ ServerState = "Closing"
              /\ ServerState' = "Closed"
              /\ taskStep' = Finished
        /\ listener \in { "stopped", "closed" } => listener' \in { "stopped", "closed" }
        /\ listener' = "accepting" => (listener = "accepting" \/ phase = "binding")
        /\ closeFuture # 0 => closeFuture' = closeFuture
      ]_vars

\* The Server is Closed and close() has been called again since.
C6_Witness ==
    /\ ServerState = "Closed"
    /\ listener = "closed"
    /\ calls.close = MaxCloseCalls
    /\ created.session = 1

\* ------------------------------------------------------------ C7
\* The step of close() a logged call belongs to, 0 for a call close() does not make.
CloseRank(e) ==
    CASE e[1] \in { "session.close", "connector.close" } -> 1
      [] e[1] = "unlink" -> 2
      [] e[1] = "server.close" -> 3
      [] e[1] = "create_task" -> 4
      [] OTHER -> 0

\* C7: the close() that takes the Server from Open to Closing releases the
\* client session and connector (when they exist), then removes the path of
\* every unix socket, then stops the listener, then schedules the shutdown
\* task, and returns with the task not yet run: the Server is Closing and no
\* step of the task has begun.
C7_CloseOrder ==
    [][ (closeFuture = 0 /\ closeFuture' # 0) =>
          LET added == SubSeq(events', Len(events) + 1, Len(events'))
              ops == { added[i] : i \in DOMAIN added }
          IN  /\ \A i \in DOMAIN added : CloseRank(added[i]) >= 1
              /\ \A i, j \in DOMAIN added :
                    i < j => \/ CloseRank(added[i]) < CloseRank(added[j])
                             \/ /\ CloseRank(added[i]) = CloseRank(added[j])
                                /\ CloseRank(added[i]) \in { 1, 2 }
                                /\ added[i] # added[j]
              /\ Ev("session.close", "") \in ops <=> session # None
              /\ Ev("connector.close", "") \in ops <=> connector # None
              /\ \A p \in { UnixPath, SockPath } :
                    Ev("unlink", p) \in ops
                       <=> \E i \in DOMAIN sockets :
                              sockets[i].kind = "unix" /\ sockets[i].addr = p
              /\ Ev("server.close", "") \in ops
              /\ Ev("create_task", "") \in ops
              /\ listener' = "stopped"
              /\ ServerState' = "Closing"
              /\ taskStep' = 0
              /\ \A i \in 1..LastStep : ~Has(Ev("begin", WaitClosedSteps[i]))'
      ]_vars

\* close() has just returned on a unix-socket Server whose client had been used:
\* all four steps are in the log and the task has not run.
C7_Witness ==
    /\ closeFuture # 0
    /\ taskStep = 0
    /\ Len(events) >= 5
    /\ SubSeq(events, Len(events) - 4, Len(events))
         = << Ev("session.close", ""), Ev("connector.close", ""),
              Ev("unlink", UnixPath), Ev("server.close", ""), Ev("create_task", "") >>

\* ------------------------------------------------------------ C8
\* C8: the hooks are registered in the order of on_finish and run in it: a
\* hook has returned before any later one is called, and all have returned
\* before the final cleanup begins.
C8_HooksInOrder ==
    /\ Serving => onShutdown = cfg.on_finish
    /\ \A i, j \in 1..Len(cfg.on_finish) :
          (i < j /\ Has(Ev("hook_begin", cfg.on_finish[j])))
             => Before(Ev("hook_end", cfg.on_finish[i]),
                       Ev("hook_begin", cfg.on_finish[j]))
    /\ Has(Ev("begin", "app.cleanup"))
          => \A i \in 1..Len(cfg.on_finish) :
                Before(Ev("hook_end", cfg.on_finish[i]), Ev("begin", "app.cleanup"))

\* With on_finish = (A, B): both hooks have returned and the cleanup has begun.
C8_Witness ==
    /\ cfg.on_finish = << "A", "B" >>
    /\ Before(Ev("hook_end", "A"), Ev("hook_begin", "B"))
    /\ Before(Ev("hook_end", "B"), Ev("begin", "app.cleanup"))

\* ------------------------------------------------------------ C9
\* C9: once the listener wait and the shutdown hooks are over, the shutdown
\* task always comes to its end, and successfully, also when a connection
\* never finishes on its own: the timeout closes it.
C9_DrainTerminates ==
    Has(Ev("end", "app.shutdown")) ~> (TaskDone /\ taskResult = "ok")

\* The task ended successfully after the timeout closed a lingering connection.
C9_Witness ==
    /\ TaskDone
    /\ taskResult = "ok"
    /\ forced # { }
    /\ Has(Ev("force_close", ""))

\* ------------------------------------------------------------ C10
\* A mount prefix that breaks the rule: it ends with "/", or it is not empty
\* and does not start with "/".
BadPrefix(path) ==
    \/ (path # << >> /\ path[Len(path)] = "/")
    \/ (path # << >> /\ path[1] # "/")

\* The mount path a static item names: a string's part before its first "=".
ItemPath(item) ==
    IF item.isStr
    THEN SubSeq(item.str, 1, CHOOSE n \in 0..Len(item.str) :
                    /\ \A i \in 1..n : item.str[i] # "="
                    /\ (n < Len(item.str) => item.str[n + 1] = "="))
    ELSE item.path

MissingSeparator(item) == item.isStr /\ \A i \in DOMAIN item.str : item.str[i] # "="

\* A static string without "=", or a static or script prefix breaking the rule.
RoutingError(c) ==
    \/ \E i \in DOMAIN c.static :
          MissingSeparator(c.static[i]) \/ BadPrefix(ItemPath(c.static[i]))
    \/ BadPrefix(c.script_name)

\* More than one of host, socket and unix_socket is given.
BindingConflict(c) ==
    Cardinality({ k \in { "host", "socket", "unix_socket" } : c[k] # None }) > 1

\* No listener has been created, no socket permission changed, no Server returned.
NothingOpened ==
    /\ phase # "serving"
    /\ listener = "none"
    /\ sockets = << >>
    /\ \A i \in DOMAIN events : events[i][1] # "chmod"

\* start_server has failed, and did so before its listener-creation call.
FailedBeforeListening == phase = "failed_config" /\ events = << >>

\* C10: with a configuration error (binding options given together, a static
\* string without "=", a mount prefix breaking the slash rule) start_server fails
\* before any listening socket is opened: no listener is created, no socket
\* permission is changed and no Server is returned.
C10_ConfigErrorFailsFast ==
    (RoutingError(cfg) \/ BindingConflict(cfg)) => NothingOpened

\* The part of C10 the code does implement: a routing error alone stops
\* start_server at its assertions, before the listener-creation call.
RoutingErrorFailsFast ==
    RoutingError(cfg) => NothingOpened /\ (phase # "init" => FailedBeforeListening)


\* ------------------------------------------------------------ C11
\* The creation call the claimed precedence asks for: the filesystem path if
\* given, else the socket handle if given, else host and port.
ClaimedCreateCall(c) ==
    IF c.unix_socket # None THEN Ev("create_unix_server", c.unix_socket)
    ELSE IF c.socket # None THEN Ev("create_server_sock", c.socket)
    ELSE Ev("create_server_host", c.host)

CreateOps == { "create_unix_server", "create_server_sock", "create_server_host" }

CreateCalls == SelectSeq(events, LAMBDA e : e[1] \in CreateOps)

ChmodCalls == SelectSeq(events, LAMBDA e : e[1] = "chmod")

C12_ClientCreatedOnce ==
    /\ [](/\ created.connector <= 1
          /\ created.session <= 1
          /\ (created.connector = 1) <=> (connector # None)
          /\ (created.session = 1) <=> (session # None))
    /\ [][ /\ created'.connector # created.connector => connector = None
           /\ created'.session # created.session => session = None
           /\ \A c \in Callers :
                (pc[c] = "idle" /\ pc'[c] = "requesting" /\ session # None)
                    => (session' = session /\ connector' = connector
                        /\ created' = created)
         ]_vars

\* Two request() calls are in flight at once on the one connector and session.
C12_Witness ==
    /\ \A c \in Callers : pc[c] = "requesting"
    /\ created = [connector |-> 1, session |-> 1]
    /\ connector = "open"
    /\ session = "open"


\* ------------------------------------------------------------ C13
\* The filesystem paths of the sockets the Server listens on.
BoundPaths == { sockets[i].addr : i \in { j \in DOMAIN sockets : sockets[j].kind = "unix" } }

AllPaths == { UnixPath, SockPath }

\* C13: once a close() has returned (the task reference is set), every
\* filesystem path the Server is bound to is gone; no path is removed more
\* than once however often close() is called; a Server bound to network
\* sockets only never removes or tries to remove a path.
C13_SocketPathRemovedOnce ==
    /\ closeFuture # 0
          => \A p \in BoundPaths : p \notin fs /\ Count(Ev("unlink", p)) = 1
    /\ \A p \in AllPaths : Count(Ev("unlink", p)) <= 1
    /\ \A p \in AllPaths \ BoundPaths :
          ~Has(Ev("unlink", p)) /\ ~Has(Ev("unlink_raised", p))

\* close() was called twice on a unix-socket Server: the path is gone, removed
\* by one unlink.
C13_Witness ==
    /\ calls.close = 2
    /\ closeFuture # 0
    /\ BoundPaths = { UnixPath }
    /\ UnixPath \notin fs
    /\ Count(Ev("unlink", UnixPath)) = 1
    /\ ~Has(Ev("unlink_raised", UnixPath))


\* ------------------------------------------------------------ C14
\* Caller c leaves the `async with` block without having been cancelled.
LeavesBlock(c) ==
    /\ pc[c] \in { "body", "exiting" }
    /\ pc'[c] = "idle"
    /\ result'[c] # "cancelled"

\* C14: whenever a caller leaves the `async with` block the shutdown task has
\* finished, and an exit that follows a close() made inside the block performs
\* no teardown side effect of its own.
C14_ExitClosesAndWaits ==
    [][ \A c \in Callers :
          /\ LeavesBlock(c) => TaskDone'
          /\ (pc[c] = "body" /\ pc'[c] # "body" /\ closeFuture # 0)
                => events' = events
      ]_vars


\* ------------------------------------------------------------ C15
\* start_server has built its dispatch table.
RouterBuilt == phase \in { "binding", "serving", "failed_bind" }

BridgeIdx == Len(router)

\* The request's path lies under scriptName + "/".
UnderScriptSlash(path) == HasPrefix(path, cfg.script_name \o <<"/">>)

\* The request's path starts with the normalised script prefix.
StartsWithScript(path) ==
    HasPrefix(path, IF cfg.script_name = << >> THEN <<"/">> ELSE cfg.script_name)

\* The explicit routes of the input that the request matches.
ExplicitMatches(method, path) ==
    { i \in DOMAIN cfg.routes :
        cfg.routes[i].method = method /\ cfg.routes[i].path = path }

NoEarlierMatch(idx, method, path) ==
    \A j \in 1..(idx - 1) : ~Matches(router[j], method, path)

\* The table holds the explicit routes in input order, then the static mounts
\* in input order, then the bridge, bound to every method.
TableInOrder ==
    /\ Len(router) = Len(cfg.routes) + Len(cfg.static) + 1
    /\ \A i \in DOMAIN cfg.routes :
          /\ router[i].kind = "route"
          /\ router[i].handler = cfg.routes[i].handler
    /\ \A i \in DOMAIN cfg.static :
          /\ router[Len(cfg.routes) + i].kind = "static"
          /\ HasPrefix(router[Len(cfg.routes) + i].pattern, ItemPath(cfg.static[i]))
    /\ router[BridgeIdx].kind = "wsgi"
    /\ router[BridgeIdx].method = "*"
    /\ router[BridgeIdx].wildcard

\* A request goes to the bridge exactly when its path is in the bridge's mount
\* (given by the predicate Mount) and no earlier entry matches it; a request
\* matching an explicit route goes to the first such route.
Dispatched(Mount(_)) ==
    handled.method # None =>
        /\ handled.idx = BridgeIdx
              <=> /\ Mount(handled.path)
                  /\ NoEarlierMatch(BridgeIdx, handled.method, handled.path)
        /\ ExplicitMatches(handled.method, handled.path) # { }
              => /\ handled.idx \in ExplicitMatches(handled.method, handled.path)
                 /\ \A i \in ExplicitMatches(handled.method, handled.path) :
                        handled.idx <= i

\* C15: the bridge is the last entry of the dispatch table, after the explicit
\* routes and the static mounts in input order, bound for every method to the
\* wildcard under scriptName + "/"; it gets a request only when no earlier
\* entry matches, and a request matching an explicit route goes to that route.
C15_BridgeLastUnderScriptSlash ==
    RouterBuilt => TableInOrder /\ Dispatched(UnderScriptSlash)

\* What the table built by lines 109-127 does guarantee: the same, with the
\* bridge taking every path that starts with the normalised script prefix.
BridgeLastAsBuilt ==
    RouterBuilt => TableInOrder /\ Dispatched(StartsWithScript)

\* With script_name "/a", a request for /ab reached the bridge.
BridgeTakesSibling ==
    /\ cfg.script_name = PathA
    /\ handled.path = PathAB
    /\ handled.idx = BridgeIdx


\* ------------------------------------------------------------ C16
\* The normal form of an accepted prefix: "/" for the empty one, else itself.
NormalPrefix(path) == IF path = << >> THEN <<"/">> ELSE path

\* C16: start_server rejects the configuration exactly when the script prefix
\* or the path of a static mount ends with "/" or is non-empty without a
\* leading "/" (or a static string lacks "="); otherwise the bridge is
\* registered on the script prefix and every static mount on its path, each
\* unchanged except that the empty prefix became "/".
C16_PrefixNormalized ==
    /\ phase # "init" => (phase = "failed_config" <=> RoutingError(cfg))
    /\ RouterBuilt =>
          /\ router[BridgeIdx].pattern = NormalPrefix(cfg.script_name)
          /\ \A i \in DOMAIN cfg.static :
                router[Len(cfg.routes) + i].pattern
                    = NormalPrefix(ItemPath(cfg.static[i])) \o <<"/">>

\* The empty script prefix and the empty static path were both registered as "/".
C16_Witness ==
    /\ phase = "serving"
    /\ cfg.script_name = << >>
    /\ cfg.static = << StrItem(<<"=", "d">>) >>
    /\ router[BridgeIdx].pattern = <<"/">>
    /\ router[Len(cfg.routes) + 1].pattern = <<"/", "/">>


\* ------------------------------------------------------------ C17
\* C17: once the Server is Closed, whatever the interleaving of request() and
\* close() calls was, no connector or session is open: each one that was
\* constructed has been closed.
C17_NoClientOutlivesServer ==
    ServerState = "Closed" =>
        /\ connector # "open"
        /\ session # "open"
        /\ created.connector > 0 => connector = "closed"
        /\ created.session > 0 => session = "closed"

\* The Server is Closed while a request() made before close() is still in
\* flight: the session and connector it constructed are closed.
C17_Witness ==
    /\ ServerState = "Closed"
    /\ created = [connector |-> 1, session |-> 1]
    /\ connector = "closed"
    /\ session = "closed"
    /\ \E c \in Callers : pc[c] = "requesting"


\* ------------------------------------------------------------ C18
\* A caller suspended in wait_closed() is cancelled in this step.
WaiterCancelled(c) ==
    /\ pc[c] \in { "waiting", "exiting" }
    /\ pc'[c] = "idle"
    /\ result'[c] = "cancelled"

\* C18: the step that cancels a wait_closed() caller changes nothing of the
\* shutdown task (its position, its pending hook, its outcome, the side
\* effects done so far) and wakes no other caller; the task never ends
\* cancelled, and every other caller that gets an outcome gets the task's.
C18_CancelLeavesTask ==
    /\ [][ \A c \in Callers :
             WaiterCancelled(c) =>
                /\ UNCHANGED << closeFuture, taskStep, hookIdx, taskResult, events,
                                listener, conns, forced >>
                /\ \A d \in Callers \ { c } : pc'[d] = pc[d] /\ result'[d] = result[d]
         ]_vars
    /\ [](taskResult # "cancelled")
    /\ [](\A c \in Callers :
             result[c] \notin NotFromTask => TaskDone /\ result[c] = taskResult)

\* One waiter was cancelled; the task still ran all four steps and the other
\* waiter got its outcome.
C18_Witness ==
    /\ result["c1"] = "cancelled"
    /\ TaskDone
    /\ taskResult = "ok"
    /\ result["c2"] = "ok"
    /\ \A i \in 1..LastStep : Has(Ev("begin", WaitClosedSteps[i]))


\* ------------------------------------------------------------ C19
\* close() released the client: the session or the connector is closed.
ClientReleased == session = "closed" \/ connector = "closed"

\* C19: after any close() call, one that raised while removing a socket path
\* included, the listener is stopped and the shutdown task exists; the client
\* is never released while the listener still accepts and no task is recorded.
C19_CloseExceptionSafe ==
    /\ calls.close > 0 => listener # "accepting" /\ closeFuture # 0
    /\ ClientReleased => ~(listener = "accepting" /\ closeFuture = 0)

\* ------------------------------------------------------------ C20
\* A filesystem path the Server is bound to has been removed.
PathRemoved == \E p \in BoundPaths : p \notin fs

\* C20: no state a task can observe has the client released or a socket path
\* removed while the shutdown task reference is unset, and the shutdown task
\* has done nothing before the close() that created it returned.
C20_CloseAtomic ==
    /\ (ClientReleased \/ PathRemoved) => closeFuture # 0
    /\ closeFuture = 0
          => /\ taskStep = 0
             /\ taskResult = "none"
             /\ \A i \in DOMAIN events : events[i][1] \notin { "begin", "hook_begin" }

\* The part of C20 that rests on close() having no await: the task reference,
\* the stopped listener and the scheduled, not yet started task appear in one
\* step, and the task's first step is a later one.
CloseHasNoSuspension ==
    [][ (closeFuture = 0 /\ closeFuture' # 0)
            => /\ listener' = "stopped"
               /\ taskStep' = 0
               /\ session' # "open" /\ connector' # "open"
               /\ \A p \in BoundPaths : p \notin fs'
               /\ \A i \in DOMAIN events' : events'[i][1] \notin { "begin", "hook_begin" }
      ]_vars

====
